---- MODULE Spec2Model ----
(***************************************************************************)
(* Model of cc-editor-portal.user.js: the DynamicContentLoader completion  *)
(* detector, the CCEditorLauncher polling injector, the ChubAdapter and    *)
(* the bootstrap that wires them to navigation signals.                    *)
(*                                                                         *)
(* Time is in milliseconds.  A timer is an entry of the host's timer table *)
(* holding the time left until it is due.  SpecDetector drives one         *)
(* detector through its public API under ideal timers (a due timer runs    *)
(* before time moves on); Spec is the userscript as bootstrapped, with     *)
(* time abstracted (any pending timer may run next); SpecLate is           *)
(* SpecDetector on a host that still delivers a mutation callback that was *)
(* queued when the detector released its observer.                         *)
(***************************************************************************)
EXTENDS Integers, Sequences, FiniteSets, TLC

VARIABLES
    det,         \* detector instances: the fields of each DynamicContentLoader
    timers,      \* host timer table: pending setTimeout handles -> owner, time left
    queued,      \* observers holding undelivered mutation records
    page,        \* the document: insertion targets, their buttons, the scope element
    location,    \* location.pathname, as its sequence of path segments
    lastIndex,   \* ChubAdapter.pattern.lastIndex (the pattern has the g flag)
    adapter,     \* launcher.adapter
    pollers,     \* the closures created by waitForDom
    pendingFire, \* fireOnce calls suspended at their await
    calls,       \* per detector: callback invocations since its last accepted start
    hist,        \* per detector: measurements of the current run
    lastOp       \* the last step: the API call it made and its outcome, and the
                 \* outcome of the lookup-and-inject attempt it ran, if any

vars == <<det, timers, queued, page, location, lastIndex, adapter, pollers,
          pendingFire, calls, hist, lastOp>>

detVars == <<det, timers, calls, hist>>
launcherVars == <<page, location, lastIndex, adapter, pollers>>

(***************************************************************************)
(* Bounds of the model                                                     *)
(***************************************************************************)
MaxDets == 2          \* detector instances
MaxPollers == 2       \* waitForDom closures
MaxTargets == 2       \* candidate insertion targets in the document
MaxPendingFire == 1   \* fireOnce calls suspended at once
MaxCalls == 2         \* callback invocations recorded per run
Step == 100           \* largest advance of the clock in one step, in ms

Dets == 1..MaxDets
Pollers == 1..MaxPollers
HandlesPerDet == 3    \* timer handles a detector can hold at once
TimerIds == 1..(HandlesPerDet * MaxDets)
Targets == 1..MaxTargets

(***************************************************************************)
(* Program constants                                                       *)
(***************************************************************************)
QuietPeriodDefault == 500
MaxWaitTimeDefault == 10000

NULL == "null"
UNDEFINED == "undefined"
NullTimer == 0

CONFIG ==
    [ccEditorBaseUrl |-> "https://lenml.github.io/CCEditor/",
     buttonText |-> "Edit in CCEditor",
     buttonClass |-> "cceditor-jump-btn"]

\* Property read of a JS object: a missing key reads as undefined.
Get(obj, key) == IF key \in DOMAIN obj THEN obj[key] ELSE UNDEFINED

Min(a, b) == IF a <= b THEN a ELSE b

SetMin(S) == CHOOSE x \in S : \A y \in S : x <= y

(***************************************************************************)
(* Host timers                                                             *)
(***************************************************************************)
\* setTimeout returns a handle no pending timer has.  Which one is immaterial:
\* the model hands detector d the smallest handle of its own range that is
\* neither pending nor stored in one of its fields.
Pool(d) == ((d - 1) * HandlesPerDet + 1)..(d * HandlesPerDet)

FreeIds(d, tm, self) == Pool(d) \ (DOMAIN tm \cup {self.quietTimer, self.timeoutTimer})

FreshTimer(d, tm, self) ==
    IF FreeIds(d, tm, self) # {} THEN SetMin(FreeIds(d, tm, self)) ELSE NullTimer

\* setTimeout(callback of detector d, ms): the table with handle id added.
setTimeout(tm, id, d, kind, ms) ==
    [i \in DOMAIN tm \cup ({id} \ {NullTimer}) |->
        IF i = id THEN [det |-> d, kind |-> kind, remaining |-> ms] ELSE tm[i]]

clearTimeout(tm, id) == [i \in DOMAIN tm \ {id} |-> tm[i]]

(***************************************************************************)
(* DynamicContentLoader                                                    *)
(***************************************************************************)
DefaultConfig ==
    [quietPeriod |-> QuietPeriodDefault,
     maxWaitTime |-> MaxWaitTimeDefault,
     targetSelector |-> NULL]

\* { ...base, ...options }
Merge(base, options) ==
    [k \in DOMAIN base \cup DOMAIN options |->
        IF k \in DOMAIN options THEN options[k] ELSE base[k]]

NotCreated ==
    [created |-> FALSE, config |-> DefaultConfig, observer |-> NULL,
     quietTimer |-> NullTimer, timeoutTimer |-> NullTimer,
     isLoading |-> FALSE, isComplete |-> FALSE,
     onComplete |-> NULL, onTimeout |-> NULL]

constructor(options) ==
    [NotCreated EXCEPT !.created = TRUE, !.config = Merge(DefaultConfig, options)]

NoCall == [slot |-> "none", fn |-> NULL]

\* A detector operation works on S = [self, tm, call]: the instance, the
\* timer table and the callback it has invoked.

\* cleanup() that leaves the observer connected.
cleanup_noDisconnect(S) ==
    [S EXCEPT
        !.self = [S.self EXCEPT !.quietTimer = NullTimer,
                                !.timeoutTimer = NullTimer],
        !.tm = clearTimeout(clearTimeout(S.tm, S.self.quietTimer), S.self.timeoutTimer)]

\* cleanup() that leaves the timeout timer armed.
cleanup_keepTimeout(S) ==
    [S EXCEPT
        !.self = [S.self EXCEPT !.observer = NULL, !.quietTimer = NullTimer],
        !.tm = clearTimeout(S.tm, S.self.quietTimer)]

cleanup(S) ==
    [S EXCEPT
        !.self = [S.self EXCEPT !.observer = NULL,
                                !.quietTimer = NullTimer,
                                !.timeoutTimer = NullTimer],
        !.tm = clearTimeout(clearTimeout(S.tm, S.self.quietTimer), S.self.timeoutTimer)]

\* resetQuietTimer() that arms the new timer without clearing the old one.
resetQuietTimer_noClear(d, S) ==
    LET id == FreshTimer(d, S.tm, S.self)
    IN  [S EXCEPT
            !.self = [S.self EXCEPT !.quietTimer = id],
            !.tm = setTimeout(S.tm, id, d, "quiet", S.self.config.quietPeriod)]

resetQuietTimer(d, S) ==
    LET cleared == IF S.self.quietTimer # NullTimer
                   THEN clearTimeout(S.tm, S.self.quietTimer)
                   ELSE S.tm
        id == FreshTimer(d, cleared, [S.self EXCEPT !.quietTimer = NullTimer])
    IN  [S EXCEPT
            !.self = [S.self EXCEPT !.quietTimer = id],
            !.tm = setTimeout(cleared, id, d, "quiet", S.self.config.quietPeriod)]

handleMutation(d, S) ==
    IF S.self.isComplete THEN S ELSE resetQuietTimer(d, S)

handleComplete(S) ==
    IF S.self.isComplete
    THEN S
    ELSE LET flagged == [S EXCEPT !.self = [S.self EXCEPT !.isComplete = TRUE,
                                                          !.isLoading = FALSE]]
             cleaned == cleanup(flagged)
         IN  IF cleaned.self.onComplete # NULL
             THEN [cleaned EXCEPT !.call = [slot |-> "onComplete",
                                            fn |-> cleaned.self.onComplete]]
             ELSE cleaned

\* handleTimeout() without the fallback to onComplete.
handleTimeout_noFallback(S) ==
    IF S.self.isComplete
    THEN S
    ELSE LET cleaned == cleanup(S)
         IN  IF cleaned.self.onTimeout # NULL
             THEN [cleaned EXCEPT !.call = [slot |-> "onTimeout",
                                            fn |-> cleaned.self.onTimeout]]
             ELSE cleaned

\* handleTimeout() that calls onComplete whether or not onTimeout was given.
handleTimeout_alwaysComplete(S) ==
    IF S.self.isComplete
    THEN S
    ELSE LET cleaned == cleanup(S)
         IN  IF cleaned.self.onComplete # NULL
             THEN [cleaned EXCEPT !.call = [slot |-> "onComplete",
                                            fn |-> cleaned.self.onComplete]]
             ELSE cleaned

handleTimeout(S) ==
    IF S.self.isComplete
    THEN S
    ELSE LET cleaned == cleanup(S)
         IN  IF cleaned.self.onTimeout # NULL
             THEN [cleaned EXCEPT !.call = [slot |-> "onTimeout",
                                            fn |-> cleaned.self.onTimeout]]
             ELSE IF cleaned.self.onComplete # NULL
             THEN [cleaned EXCEPT !.call = [slot |-> "onComplete",
                                            fn |-> cleaned.self.onComplete]]
             ELSE cleaned

\* document.querySelector(targetSelector) or document.body: what start() observes.
ObserveTarget(config, pg) ==
    IF config.targetSelector # NULL
    THEN (IF pg.scope THEN "scope" ELSE NULL)
    ELSE "body"

\* start() that arms no timeout timer.
startAccepted_noTimeout(d, S, onComplete, onTimeout, pg) ==
    LET armed == [S EXCEPT
                    !.self = [S.self EXCEPT !.isLoading = TRUE,
                                            !.isComplete = FALSE,
                                            !.onComplete = onComplete,
                                            !.onTimeout = onTimeout,
                                            !.observer = "new"]]
        target == ObserveTarget(S.self.config, pg)
    IN  IF target = NULL
        THEN handleComplete(armed)
        ELSE resetQuietTimer(d, [armed EXCEPT !.self = [armed.self EXCEPT !.observer = target]])

\* The body of start() once the isLoading guard has passed.
startAccepted(d, S, onComplete, onTimeout, pg) ==
    LET tid == FreshTimer(d, S.tm, S.self)
        armed == [S EXCEPT
                    !.self = [S.self EXCEPT !.isLoading = TRUE,
                                            !.isComplete = FALSE,
                                            !.onComplete = onComplete,
                                            !.onTimeout = onTimeout,
                                            !.timeoutTimer = tid,
                                            !.observer = "new"],
                    !.tm = setTimeout(S.tm, tid, d, "timeout", S.self.config.maxWaitTime)]
        target == ObserveTarget(S.self.config, pg)
    IN  IF target = NULL
        THEN handleComplete(armed)
        ELSE resetQuietTimer(d, [armed EXCEPT !.self = [armed.self EXCEPT !.observer = target]])

\* start() without its isLoading guard: a second start restarts the run.
start_noGuard(d, S, onComplete, onTimeout, pg) ==
    startAccepted(d, S, onComplete, onTimeout, pg)

start(d, S, onComplete, onTimeout, pg) ==
    IF S.self.isLoading
    THEN S
    ELSE startAccepted(d, S, onComplete, onTimeout, pg)

\* stop() that resets the flags without releasing observer and timers.
stop_noCleanup(S) ==
    IF ~S.self.isLoading
    THEN S
    ELSE [S EXCEPT !.self = [S.self EXCEPT !.isLoading = FALSE, !.isComplete = FALSE]]

stop(S) ==
    IF ~S.self.isLoading
    THEN S
    ELSE LET cleaned == cleanup(S)
         IN  [cleaned EXCEPT !.self = [cleaned.self EXCEPT !.isLoading = FALSE,
                                                           !.isComplete = FALSE]]

isRunning(self) == self.isLoading

hasCompleted(self) == self.isComplete

\* reconfigure() without its isLoading guard.
reconfigure_noGuard(S, newOptions) ==
    [S EXCEPT !.self = [S.self EXCEPT !.config = Merge(S.self.config, newOptions)]]

reconfigure(S, newOptions) ==
    IF S.self.isLoading
    THEN S
    ELSE [S EXCEPT !.self = [S.self EXCEPT !.config = Merge(S.self.config, newOptions)]]

(***************************************************************************)
(* ChubAdapter                                                             *)
(***************************************************************************)
\* Index in the pathname of the "/" that precedes segment i (the pathname of
\* segments <<a, b>> is "/a/b"; segments hold word characters only).
RECURSIVE Off(_, _)
Off(path, i) == IF i <= 1 THEN 0 ELSE Off(path, i - 1) + 1 + Len(path[i - 1])

PathLen(path) == IF path = <<>> THEN 1 ELSE Off(path, Len(path) + 1)

\* Segments at which /\/characters\/([\w_\-]+)\/([\w_\-]+)/ matches.
MatchStarts(path) ==
    {i \in 1..Len(path) : path[i] = "characters" /\ i + 2 <= Len(path)}

\* pattern.exec(pathname) on a pattern with the g flag: the search starts at
\* lastIndex, which a match moves to the match's end and a failure resets.
exec(path, li) ==
    LET from == IF li > PathLen(path)
                THEN {}
                ELSE {i \in MatchStarts(path) : Off(path, i) >= li}
    IN  IF from = {}
        THEN [found |-> FALSE, uid |-> "", cid |-> "", lastIndex |-> 0]
        ELSE LET i == SetMin(from)
             IN  [found |-> TRUE, uid |-> path[i + 1], cid |-> path[i + 2],
                  lastIndex |-> Off(path, i + 3)]

hostname == "chub.ai"

\* A launcher operation works on W = [adapter, lastIndex, page, pollers,
\* location] plus what the operation reports: mutated (it has changed the
\* document), thrown (it has raised a TypeError), ran (the callback of fire()
\* was run), result (the callback's return value) and url.

match(W) ==
    IF hostname = "chub.ai"
    THEN LET r == exec(W.location, W.lastIndex)
         IN  [W EXCEPT !.lastIndex = r.lastIndex, !.result = r.found]
    ELSE [W EXCEPT !.result = FALSE]

getCardImageUrl(W) ==
    LET r == exec(W.location, W.lastIndex)
    IN  [W EXCEPT
            !.lastIndex = r.lastIndex,
            !.url = IF r.found /\ r.uid # "" /\ r.cid # ""
                    THEN "https://avatars.charhub.io/avatars/" \o r.uid \o "/"
                            \o r.cid \o "/chara_card_v2.png"
                    ELSE NULL]

\* document.querySelector("main h3")?.parentElement || null; 0 stands for null.
getInsertTarget(pg) ==
    IF \E t \in Targets : pg.targets[t].present
    THEN SetMin({t \in Targets : pg.targets[t].present})
    ELSE 0

(***************************************************************************)
(* CCEditorLauncher                                                        *)
(***************************************************************************)
\* Classes carried by elements below document.body.
ClassesInBody(pg) ==
    {CONFIG.buttonClass : t \in {u \in Targets : pg.targets[u].present /\ pg.targets[u].buttons # <<>>}}

\* get injected(): CONFIG has no injectClass key.
injected(pg) == Get(CONFIG, "injectClass") \in ClassesInBody(pg)

\* injectButton() without the check for a button already in the target.
injectButton_noGuard(W, target, imgUrl) ==
    [W EXCEPT !.page.targets[target].buttons = Append(@, imgUrl), !.mutated = TRUE]

injectButton(W, target, imgUrl) ==
    IF W.page.targets[target].buttons # <<>>
    THEN W
    ELSE [W EXCEPT !.page.targets[target].buttons = Append(@, imgUrl), !.mutated = TRUE]

\* The callback fire() hands to waitForDom.
cb(W) ==
    IF injected(W.page)
    THEN [W EXCEPT !.ran = TRUE, !.result = FALSE]
    ELSE IF W.adapter # "chub"
    THEN [W EXCEPT !.ran = TRUE, !.thrown = TRUE, !.result = FALSE]
    ELSE LET target == getInsertTarget(W.page)
             U == getCardImageUrl([W EXCEPT !.ran = TRUE])
         IN  IF target = 0 \/ U.url = NULL
             THEN [U EXCEPT !.result = FALSE]
             ELSE [injectButton(U, target, U.url) EXCEPT !.result = TRUE]

\* done(): runs the closure's cleanup callbacks.
done(W, p) ==
    [W EXCEPT !.pollers[p] = [@ EXCEPT !.is_done = TRUE, !.timer = FALSE, !.observer = FALSE]]

\* run_cb returns the function done on success; it does not call it.
run_cb(W, p) ==
    IF W.pollers[p].is_done
    THEN W
    ELSE cb(W)

NoPoller ==
    [created |-> FALSE, is_done |-> FALSE, timer |-> FALSE, observer |-> FALSE]

FreePollers(W) == {p \in Pollers : ~W.pollers[p].created}

waitForDom(W) ==
    LET p == SetMin(FreePollers(W))
        made == [W EXCEPT !.pollers[p] = [NoPoller EXCEPT !.created = TRUE,
                                                          !.timer = TRUE,
                                                          !.observer = TRUE]]
    IN  run_cb(made, p)

\* fire() that goes on to waitForDom when no adapter matched.
fire_noReturn(W) ==
    LET M == match(W)
        found == [M EXCEPT !.adapter = IF M.result THEN "chub" ELSE UNDEFINED]
    IN  IF FreePollers(found) = {}
        THEN found
        ELSE waitForDom(found)

fire(W) ==
    LET M == match(W)
        found == [M EXCEPT !.adapter = IF M.result THEN "chub" ELSE UNDEFINED]
    IN  IF found.adapter = UNDEFINED
        THEN found
        ELSE waitForDom(found)

\* fire() finds a free closure slot whenever it needs one.
CanFire(W) == ~match(W).result \/ FreePollers(W) # {}

(***************************************************************************)
(* Bootstrap                                                               *)
(***************************************************************************)
\* /chub\.ai\/characters\/[\w_-]+\/[\w_-]+/i tested on location.href: the
\* pattern has no g flag, so the test keeps no state.
is_matched(path) ==
    /\ Len(path) >= 3
    /\ path[1] \in {"characters", "Characters"}

(***************************************************************************)
(* Inputs the environment draws from                                       *)
(***************************************************************************)
NoOptions == <<>>

Options == {NoOptions, [targetSelector |-> "#app"], [quietPeriod |-> 300, maxWaitTime |-> 1000]}

Paths == {<<>>, <<"characters", "u1", "c1">>, <<"Characters", "u1", "c1">>}

(***************************************************************************)
(* Measurements                                                            *)
(***************************************************************************)
NoRun ==
    [accepted |-> FALSE, live |-> FALSE, elapsed |-> 0, sinceBatch |-> 0,
     watched |-> FALSE, steady |-> FALSE, stopped |-> FALSE,
     late |-> FALSE, quietPeriod |-> 0, maxWaitTime |-> 0, givenTimeout |-> FALSE]

NewRun(config, onTimeout, pg) ==
    [NoRun EXCEPT !.accepted = TRUE, !.live = TRUE,
                  !.watched = (ObserveTarget(config, pg) # NULL),
                  !.steady = (ObserveTarget(config, pg) # NULL),
                  !.quietPeriod = config.quietPeriod,
                  !.maxWaitTime = config.maxWaitTime,
                  !.givenTimeout = (onTimeout # NULL)]

Ended(h) == [h EXCEPT !.live = FALSE, !.elapsed = 0, !.sinceBatch = 0]

NoOp == [op |-> "other", det |-> 0, result |-> "none", attempt |-> "none"]

\* How the lookup-and-inject attempt of a launcher operation ended.
AttemptOf(W) ==
    IF W.thrown THEN "threw"
    ELSE IF ~W.ran THEN "none"
    ELSE IF W.result THEN "success"
    ELSE "retry"

(***************************************************************************)
(* Steps                                                                   *)
(***************************************************************************)
S0(d) == [self |-> det[d], tm |-> timers, call |-> NoCall]

W0 ==
    [adapter |-> adapter, lastIndex |-> lastIndex, page |-> page, pollers |-> pollers,
     location |-> location, mutated |-> FALSE, thrown |-> FALSE, ran |-> FALSE,
     result |-> FALSE, url |-> NULL]

ApplyW(W) ==
    /\ page' = W.page
    /\ lastIndex' = W.lastIndex
    /\ adapter' = W.adapter
    /\ pollers' = W.pollers

\* Observers registered on document.body with subtree: true.
BodyObservers(dets, polls) ==
    {<<"det", e>> : e \in {x \in Dets : dets[x].observer = "body"}}
        \cup {<<"poll", p>> : p \in {x \in Pollers : polls[x].observer}}

ScopeObservers(dets) ==
    {<<"det", e>> : e \in {x \in Dets : dets[x].observer = "scope"}}

\* disconnect() empties the observer's record queue.
Attached(o, dets, polls) ==
    IF o[1] = "det" THEN dets[o[2]].observer \in {"body", "scope"} ELSE polls[o[2]].observer

Requeue(dets, W) ==
    {o \in queued : Attached(o, dets, W.pollers)}
        \cup (IF W.mutated THEN BodyObservers(dets, W.pollers) ELSE {})

\* The step of detector d that ends in state S: its fields and the timer table
\* are stored, and the callback S.call, if any, runs before the step returns.
\* h and base are the run's measurements and call log the step starts from,
\* op the API call the step makes.
DetStep(d, S, kind, h, base, op) ==
    LET called == S.call.slot # "none"
        W == IF S.call.fn = "fire" THEN fire(W0) ELSE W0
        dets == [det EXCEPT ![d] = S.self]
        made == [slot |-> S.call.slot, fn |-> S.call.fn, path |-> kind,
                 at |-> h.elapsed, gap |-> h.sinceBatch]
    IN  /\ S.call.fn = "fire" => CanFire(W0)
        /\ det' = dets
        /\ timers' = S.tm
        /\ ApplyW(W)
        /\ queued' = Requeue(dets, W)
        /\ calls' = [calls EXCEPT ![d] =
                        IF called /\ Len(base) < MaxCalls THEN Append(base, made) ELSE base]
        /\ hist' = [hist EXCEPT ![d] = IF called THEN Ended(h) ELSE h]
        /\ lastOp' = [op EXCEPT !.attempt = AttemptOf(W)]
        /\ UNCHANGED location

\* start(onComplete, onTimeout) called on detector d.
StartCall(d, onComplete, onTimeout) ==
    LET accepted == ~det[d].isLoading
    IN  /\ det[d].created
        /\ queued = {}
        /\ DetStep(d, start(d, S0(d), onComplete, onTimeout, page), "start",
                   IF accepted THEN NewRun(det[d].config, onTimeout, page) ELSE hist[d],
                   IF accepted THEN <<>> ELSE calls[d],
                   [NoOp EXCEPT !.op = "start", !.det = d,
                                !.result = IF accepted THEN "accepted" ELSE "rejected"])
        /\ UNCHANGED pendingFire

ClientStart(d, onTimeout) == StartCall(d, "done", onTimeout)

ClientStop(d) ==
    /\ det[d].created
    /\ queued = {}
    /\ DetStep(d, stop(S0(d)), "stop",
               IF det[d].isLoading THEN [Ended(hist[d]) EXCEPT !.stopped = TRUE] ELSE hist[d],
               calls[d],
               [NoOp EXCEPT !.op = "stop", !.det = d,
                            !.result = IF det[d].isLoading THEN "stopped" ELSE "ignored"])
    /\ UNCHANGED pendingFire

ClientReconfigure(d, newOptions) ==
    /\ det[d].created
    /\ queued = {}
    /\ DetStep(d, reconfigure(S0(d), newOptions), "reconfigure", hist[d], calls[d],
               [NoOp EXCEPT !.op = "reconfigure", !.det = d,
                            !.result = IF det[d].isLoading THEN "rejected" ELSE "applied"])
    /\ UNCHANGED pendingFire

\* The page changes the child list of some element: every observer watching
\* it gets a record (inScope: the element lies in the detector's scope).
PageMutation(inScope) ==
    LET notified == BodyObservers(det, pollers)
                        \cup (IF inScope THEN ScopeObservers(det) ELSE {})
    IN  /\ queued = {}
        /\ notified # {}
        /\ queued' = notified
        /\ lastOp' = NoOp
        /\ UNCHANGED <<detVars, launcherVars, pendingFire>>

\* The page renders or removes the "main h3" block t.
PageRender(t) ==
    /\ queued = {}
    /\ page' = [page EXCEPT !.targets[t] = [present |-> ~@.present, buttons |-> <<>>]]
    /\ queued' = BodyObservers(det, pollers)
    /\ lastOp' = NoOp
    /\ UNCHANGED <<detVars, location, lastIndex, adapter, pollers, pendingFire>>

\* Observers are notified in the order they were created.  handleMutation
\* touches only its own detector and run_cb only the launcher and the page, so
\* the model notifies detectors, then closures, each in order of creation.
NextNotified ==
    IF \E d \in Dets : <<"det", d>> \in queued
    THEN <<"det", SetMin({d \in Dets : <<"det", d>> \in queued})>>
    ELSE <<"poll", SetMin({p \in Pollers : <<"poll", p>> \in queued})>>

\* The host delivers detector d's queued records to handleMutation.
DeliverDet(d) ==
    /\ <<"det", d>> \in queued
    /\ NextNotified = <<"det", d>>
    /\ LET h == hist[d]
           S == handleMutation(d, S0(d))
           dets == [det EXCEPT ![d] = S.self]
       IN  /\ det' = dets
           /\ timers' = S.tm
           /\ queued' = queued \ {<<"det", d>>}
           /\ hist' = [hist EXCEPT ![d] =
                          IF h.live THEN [h EXCEPT !.sinceBatch = 0] ELSE h]
    /\ lastOp' = NoOp
    /\ UNCHANGED <<calls, launcherVars, pendingFire>>

\* The step of closure p that runs run_cb.
PollStep(p) ==
    LET W == run_cb(W0, p)
    IN  /\ ApplyW(W)
        /\ queued' = Requeue(det, W) \ (IF W.mutated THEN {} ELSE {<<"poll", p>>})
        /\ lastOp' = [NoOp EXCEPT !.op = "poll", !.det = p, !.attempt = AttemptOf(W)]
        /\ UNCHANGED <<detVars, location, pendingFire>>

\* The host delivers closure p's queued records to run_cb.
DeliverPoll(p) ==
    /\ <<"poll", p>> \in queued
    /\ NextNotified = <<"poll", p>>
    /\ PollStep(p)

\* Closure p's setInterval timer fires.
PollIntervalFires(p) ==
    /\ queued = {}
    /\ pollers[p].timer
    /\ PollStep(p)

\* Timer id fires: the arrow function passed to setTimeout runs.
TimerFires(id) ==
    /\ id \in DOMAIN timers
    /\ queued = {}
    /\ LET t == timers[id]
           fired == [S0(t.det) EXCEPT !.tm = clearTimeout(timers, id)]
       IN  DetStep(t.det,
                   IF t.kind = "quiet" THEN handleComplete(fired) ELSE handleTimeout(fired),
                   t.kind, hist[t.det], calls[t.det], [NoOp EXCEPT !.op = t.kind, !.det = t.det])
    /\ UNCHANGED pendingFire

\* Ideal timers: a timer fires when its time is up.
TimerFiresOnTime(id) ==
    /\ id \in DOMAIN timers
    /\ timers[id].remaining = 0
    /\ TimerFires(id)

\* Time passes, up to the next timer's due time.
Tick ==
    /\ queued = {}
    /\ DOMAIN timers # {}
    /\ \A id \in DOMAIN timers : timers[id].remaining > 0
    /\ LET dt == Min(Step, SetMin({timers[id].remaining : id \in DOMAIN timers}))
       IN  /\ timers' = [id \in DOMAIN timers |->
                            [timers[id] EXCEPT !.remaining = @ - dt]]
           /\ hist' = [d \in Dets |->
                          LET h == hist[d]
                          IN  IF h.live
                              THEN [h EXCEPT
                                      !.elapsed = Min(@ + dt, h.maxWaitTime + Step),
                                      !.sinceBatch = Min(@ + dt, h.maxWaitTime + Step),
                                      !.steady = @ /\ (h.sinceBatch + dt < h.quietPeriod)]
                              ELSE h]
    /\ lastOp' = NoOp
    /\ UNCHANGED <<det, calls, queued, launcherVars, pendingFire>>

\* A navigation signal (popstate, pushState, replaceState, hashchange):
\* the listener calls fireOnce, which suspends at its await.
Navigate(path) ==
    /\ queued = {}
    /\ pendingFire < MaxPendingFire
    /\ location' = path
    /\ pendingFire' = pendingFire + 1
    /\ lastOp' = NoOp
    /\ UNCHANGED <<detVars, queued, page, lastIndex, adapter, pollers>>

\* fireOnce resumes after its await.
FireOnceResume ==
    /\ queued = {}
    /\ pendingFire > 0
    /\ pendingFire' = pendingFire - 1
    /\ IF ~is_matched(location)
       THEN /\ lastOp' = NoOp
            /\ UNCHANGED <<detVars, queued, launcherVars>>
       ELSE /\ \E d \in Dets : ~det[d].created
            /\ LET d == SetMin({e \in Dets : ~det[e].created})
                   onLoad == constructor(NoOptions)
                   made == [S0(d) EXCEPT !.self = onLoad]
               IN  DetStep(d, start(d, made, "fire", NULL, page), "start",
                           NewRun(onLoad.config, NULL, page), <<>>,
                           [NoOp EXCEPT !.op = "start", !.det = d, !.result = "accepted"])

\* A mutation callback that was queued when detector d's terminal path ran
\* reaches handleMutation after it.
LateMutation(d) ==
    /\ det[d].created
    /\ queued = {}
    /\ det[d].observer = NULL
    /\ hist[d].watched
    /\ ~hist[d].late
    /\ ~hist[d].stopped
    /\ calls[d] # <<>>
    /\ Len(calls[d]) < MaxCalls
    /\ LET S == handleMutation(d, S0(d))
       IN  /\ det' = [det EXCEPT ![d] = S.self]
           /\ timers' = S.tm
    /\ hist' = [hist EXCEPT ![d].late = TRUE]
    /\ lastOp' = NoOp
    /\ UNCHANGED <<calls, queued, launcherVars, pendingFire>>

(***************************************************************************)
(* Specifications                                                          *)
(***************************************************************************)
NoPage == [targets |-> [t \in Targets |-> [present |-> FALSE, buttons |-> <<>>]],
           scope |-> FALSE]

InitCommon ==
    /\ timers = <<>>
    /\ queued = {}
    /\ lastIndex = 0
    /\ adapter = NULL
    /\ pollers = [p \in Pollers |-> NoPoller]
    /\ calls = [d \in Dets |-> <<>>]
    /\ hist = [d \in Dets |-> NoRun]
    /\ lastOp = NoOp

\* The userscript has run: the launcher exists, no detector does, and the
\* fireOnce() call of the last line is suspended at its await.
Init ==
    /\ InitCommon
    /\ det = [d \in Dets |-> NotCreated]
    /\ page = NoPage
    /\ location \in Paths
    /\ pendingFire = 1

Next ==
    \/ \E path \in Paths : Navigate(path)
    \/ FireOnceResume
    \/ PageMutation(FALSE)
    \/ \E t \in Targets : PageRender(t)
    \/ \E d \in Dets : DeliverDet(d)
    \/ \E p \in Pollers : DeliverPoll(p)
    \/ \E p \in Pollers : PollIntervalFires(p)
    \/ \E id \in TimerIds : TimerFires(id)

Spec == Init /\ [][Next]_vars

\* One detector, constructed with some options, driven through its API.
InitDetector ==
    /\ InitCommon
    /\ \E o \in Options :
          det = [d \in Dets |-> IF d = 1 THEN constructor(o) ELSE NotCreated]
    /\ \E b \in BOOLEAN : page = [NoPage EXCEPT !.scope = b]
    /\ location = <<>>
    /\ pendingFire = 0

NextDetector ==
    \/ \E d \in Dets, ot \in {NULL, "late"} : ClientStart(d, ot)
    \/ \E d \in Dets : ClientStop(d)
    \/ \E d \in Dets, o \in Options : ClientReconfigure(d, o)
    \/ \E b \in BOOLEAN : PageMutation(b)
    \/ \E d \in Dets : DeliverDet(d)
    \/ \E id \in TimerIds : TimerFiresOnTime(id)
    \/ Tick

SpecDetector == InitDetector /\ [][NextDetector]_vars

NextLate ==
    \/ NextDetector
    \/ \E d \in Dets : LateMutation(d)

SpecLate == InitDetector /\ [][NextLate]_vars

(***************************************************************************)
(* Properties                                                              *)
(***************************************************************************)
\* The timers of detector d that are pending in the host.
PendingOf(d) == {id \in DOMAIN timers : timers[id].det = d}

Released(d) ==
    /\ det[d].observer = NULL
    /\ det[d].quietTimer = NullTimer
    /\ det[d].timeoutTimer = NullTimer
    /\ PendingOf(d) = {}

Observing(d) == det[d].isLoading /\ det[d].observer \in {"body", "scope"}

\* C1 (debounce): a callback made by the quiet path is made no earlier than
\* quietPeriod after the last mutation batch the detector received (after the
\* start, when it received none).
C1_Debounce ==
    \A d \in Dets : \A i \in 1..Len(calls[d]) :
        calls[d][i].path = "quiet" => calls[d][i].gap >= hist[d].quietPeriod

\* Batches up to 300 ms after the start, onComplete 800 ms after it.
C1_Witness ==
    \E d \in Dets :
        /\ hist[d].quietPeriod = 500
        /\ calls[d] # <<>>
        /\ calls[d][1].path = "quiet"
        /\ calls[d][1].slot = "onComplete"
        /\ calls[d][1].at = 800
        /\ calls[d][1].gap = 500

\* C2 (timeout ceiling): in a run whose scope is watched, that is not stopped
\* and in which no quietPeriod has yet passed without a mutation batch, no
\* callback is made while the timeout timer, due maxWaitTime after the start,
\* is pending, and the callbacks made are exactly one, made by the timeout
\* path maxWaitTime after the start: onTimeout if start() was given one,
\* else onComplete.
C2_TimeoutCeiling ==
    \A d \in Dets :
        LET h == hist[d]
        IN  (h.accepted /\ h.steady /\ ~h.stopped) =>
                IF calls[d] = <<>>
                THEN /\ h.live
                     /\ det[d].timeoutTimer \in DOMAIN timers
                     /\ timers[det[d].timeoutTimer].remaining = h.maxWaitTime - h.elapsed
                ELSE /\ Len(calls[d]) = 1
                     /\ calls[d][1].path = "timeout"
                     /\ calls[d][1].at = h.maxWaitTime
                     /\ calls[d][1].slot =
                            (IF h.givenTimeout THEN "onTimeout" ELSE "onComplete")

C2_Witness ==
    \E d \in Dets :
        /\ hist[d].steady
        /\ ~hist[d].stopped
        /\ hist[d].givenTimeout
        /\ Len(calls[d]) = 1
        /\ calls[d][1].slot = "onTimeout"
        /\ calls[d][1].at = MaxWaitTimeDefault

\* C3 (idempotent completion): at most one callback is made per accepted
\* start, whatever is delivered after the terminal path has run.
C3_OneTerminalCallback ==
    \A d \in Dets : Len(calls[d]) <= 1

\* C4 (injection at most once): no insertion target holds more than one
\* element of the button class.
C4_AtMostOneButton ==
    \A t \in Targets : Len(page.targets[t].buttons) <= 1

\* An attempt that reached injectButton for a target already holding the
\* button: it reports success and changes nothing in the document.
C4_Witness ==
    /\ lastOp.op = "poll"
    /\ lastOp.attempt = "success"
    /\ queued = {}
    /\ \E t \in Targets : page.targets[t].present /\ Len(page.targets[t].buttons) = 1

\* The last callback of detector d's run was made by the timeout path.
TimedOut(d) ==
    /\ calls[d] # <<>>
    /\ calls[d][Len(calls[d])].path = "timeout"
    /\ ~hist[d].stopped

\* C5 (timeout completes): once the timeout path has made its callback, and
\* until stop(), the detector is Completed (not running, completed) and a
\* start() is not rejected.
C5_TimeoutCompletes ==
    \A d \in Dets :
        TimedOut(d) =>
            /\ ~isRunning(det[d])
            /\ hasCompleted(det[d])
            /\ ~(lastOp.op = "start" /\ lastOp.det = d /\ lastOp.result = "rejected")

\* The closure whose attempt the last step ran: the one polled, or the one
\* fire() has just created.
AttemptPoller ==
    IF lastOp.op = "poll"
    THEN lastOp.det
    ELSE CHOOSE p \in Pollers :
            pollers[p].created /\ \A q \in Pollers : pollers[q].created => q <= p

\* C6 (retries stop): after an attempt that returned success, the closure that
\* made it is done: its interval is cleared and its observer disconnected.
C6_PollerStopsOnSuccess ==
    lastOp.attempt = "success" =>
        /\ pollers[AttemptPoller].is_done
        /\ ~pollers[AttemptPoller].timer
        /\ ~pollers[AttemptPoller].observer

\* C7 (single active detector): at most one detector is observing.
C7_SingleActiveDetector ==
    Cardinality({d \in Dets : Observing(d)}) <= 1

\* C8 (double start): a start() rejected because the detector is running
\* changes no field of any detector, no timer, no queued record, and makes no
\* callback.
C8_DoubleStartRejected ==
    [][(lastOp'.op = "start" /\ lastOp'.result = "rejected") =>
            /\ det' = det
            /\ timers' = timers
            /\ queued' = queued
            /\ calls' = calls]_vars

\* A rejected start() on an observing detector some time into its run.
C8_Witness ==
    /\ lastOp.op = "start"
    /\ lastOp.result = "rejected"
    /\ Observing(lastOp.det)
    /\ det[lastOp.det].quietTimer \in DOMAIN timers
    /\ det[lastOp.det].timeoutTimer \in DOMAIN timers
    /\ timers[det[lastOp.det].timeoutTimer].remaining < det[lastOp.det].config.maxWaitTime

\* C9 (missing scope): a run whose start() found no scope element has made
\* exactly one callback, onComplete, inside start(); the detector is
\* Completed and holds no observer and no timer.
C9_MissingScope ==
    \A d \in Dets :
        (hist[d].accepted /\ ~hist[d].watched) =>
            /\ Len(calls[d]) = 1
            /\ calls[d][1].slot = "onComplete"
            /\ calls[d][1].path = "start"
            /\ calls[d][1].at = 0
            /\ hasCompleted(det[d])
            /\ ~isRunning(det[d])
            /\ Released(d)

C9_Witness ==
    \E d \in Dets :
        /\ hist[d].accepted
        /\ ~hist[d].watched
        /\ det[d].config.targetSelector # NULL
        /\ lastOp.op = "start"
        /\ lastOp.result = "accepted"
        /\ calls[d] # <<>>

\* C10 as claimed: after stop(), from whatever state, the detector is Idle
\* with observer and timers released.
C10_StopLeavesIdle ==
    lastOp.op = "stop" =>
        /\ ~isRunning(det[lastOp.det])
        /\ ~hasCompleted(det[lastOp.det])
        /\ Released(lastOp.det)

\* C10 as amended: stop() on a running detector leaves it Idle with observer
\* and timers released; stop() on a detector that is not running (Completed
\* by the quiet path or by a missing scope, or Idle) changes nothing, so a
\* Completed detector stays Completed; stop() makes no callback; and from a
\* stop() on a running detector to the next accepted start() no callback is
\* made.
C10_StopAmended ==
    [][/\ lastOp'.op = "stop" =>
            /\ calls' = calls
            /\ IF isRunning(det[lastOp'.det])
               THEN /\ ~isRunning(det'[lastOp'.det])
                    /\ ~hasCompleted(det'[lastOp'.det])
                    /\ det'[lastOp'.det].observer = NULL
                    /\ det'[lastOp'.det].quietTimer = NullTimer
                    /\ det'[lastOp'.det].timeoutTimer = NullTimer
                    /\ \A id \in DOMAIN timers' : timers'[id].det # lastOp'.det
               ELSE det' = det /\ timers' = timers
       /\ \A d \in Dets :
            (hist[d].stopped /\ hist'[d].stopped) => calls'[d] = calls[d]]_vars

\* stop() on a detector observing with both timers pending.
C10_Witness ==
    /\ lastOp.op = "stop"
    /\ lastOp.result = "stopped"
    /\ hist[lastOp.det].watched
    /\ calls[lastOp.det] = <<>>

\* C11 (bounded latency): in a run that is not stopped, as long as no callback
\* has been made the timeout timer is pending and due maxWaitTime after the
\* start, so time cannot pass that point without a callback; the first
\* callback is made no later than maxWaitTime after the start, and once it is
\* made the detector is no longer observing.
C11_BoundedLatency ==
    \A d \in Dets :
        LET h == hist[d]
        IN  (h.accepted /\ ~h.stopped) =>
                IF calls[d] = <<>>
                THEN /\ h.live
                     /\ h.elapsed <= h.maxWaitTime
                     /\ det[d].timeoutTimer \in DOMAIN timers
                     /\ timers[det[d].timeoutTimer].remaining = h.maxWaitTime - h.elapsed
                ELSE /\ calls[d][1].at <= h.maxWaitTime
                     /\ ~Observing(d)

\* A run of irregular mutation bursts, given no onTimeout, ended by the
\* ceiling of the default configuration.
C11_Witness ==
    \E d \in Dets :
        /\ ~hist[d].steady
        /\ ~hist[d].stopped
        /\ ~hist[d].givenTimeout
        /\ calls[d] # <<>>
        /\ calls[d][1].path = "timeout"
        /\ calls[d][1].at = MaxWaitTimeDefault

\* A configuration holds what merging the keys of options over old gives.
IsMergeOf(new, old, options) ==
    /\ DOMAIN new = DOMAIN old \cup DOMAIN options
    /\ \A k \in DOMAIN options : new[k] = options[k]
    /\ \A k \in DOMAIN old \ DOMAIN options : new[k] = old[k]

\* C12 as claimed: reconfigure() changes the configuration only when the
\* detector is Idle (not running and not completed).
C12_ReconfigureOnlyIdle ==
    [][(lastOp'.op = "reconfigure" /\ det'[lastOp'.det].config # det[lastOp'.det].config) =>
            (~isRunning(det[lastOp'.det]) /\ ~hasCompleted(det[lastOp'.det]))]_vars

\* C12 as amended: reconfigure() on a detector that is not running (Idle or
\* Completed) sets the configuration to the shallow merge of the given keys
\* over the current one and changes nothing else; on a running detector it
\* is rejected and changes no configuration, field, timer, queued record or
\* callback log.
C12_ReconfigureAmended ==
    [][lastOp'.op = "reconfigure" =>
            /\ timers' = timers
            /\ queued' = queued
            /\ calls' = calls
            /\ IF isRunning(det[lastOp'.det])
               THEN lastOp'.result = "rejected" /\ det' = det
               ELSE /\ lastOp'.result = "applied"
                    /\ \E o \in Options :
                          /\ IsMergeOf(det'[lastOp'.det].config, det[lastOp'.det].config, o)
                          /\ det' = [det EXCEPT ![lastOp'.det].config =
                                                    det'[lastOp'.det].config]]_vars

\* A reconfigure() that has replaced the defaults' quietPeriod and kept the
\* selector the detector was constructed with.
C12_Witness ==
    /\ lastOp.op = "reconfigure"
    /\ lastOp.result = "applied"
    /\ det[lastOp.det].config.quietPeriod # QuietPeriodDefault
    /\ det[lastOp.det].config.targetSelector # NULL

\* C13 (timeout fallback): a step of the timeout path leaves exactly one
\* callback made for the run, onTimeout if start() was given one and
\* onComplete otherwise; a step of the quiet path leaves exactly one, which
\* is onComplete.
C13_TimeoutFallback ==
    /\ lastOp.op = "timeout" =>
            /\ Len(calls[lastOp.det]) = 1
            /\ calls[lastOp.det][1].path = "timeout"
            /\ calls[lastOp.det][1].slot =
                    (IF hist[lastOp.det].givenTimeout THEN "onTimeout" ELSE "onComplete")
            /\ calls[lastOp.det][1].fn =
                    (IF hist[lastOp.det].givenTimeout
                     THEN det[lastOp.det].onTimeout
                     ELSE det[lastOp.det].onComplete)
    /\ lastOp.op = "quiet" =>
            /\ Len(calls[lastOp.det]) = 1
            /\ calls[lastOp.det][1].path = "quiet"
            /\ calls[lastOp.det][1].slot = "onComplete"
            /\ calls[lastOp.det][1].fn = det[lastOp.det].onComplete

\* The timeout path of a run that was given no onTimeout: onComplete is called.
C13_Witness ==
    /\ lastOp.op = "timeout"
    /\ ~hist[lastOp.det].givenTimeout
    /\ calls[lastOp.det] # <<>>
    /\ calls[lastOp.det][1].slot = "onComplete"

\* The heading's parent is in the document and holds no button.
TargetReady(pg) ==
    /\ getInsertTarget(pg) # 0
    /\ pg.targets[getInsertTarget(pg)].buttons = <<>>

\* C14 (successful attempt): an attempt made at a location the adapter's
\* pattern matches, with the target present and no button in it, does not
\* end in a retry or an error (a failed attempt leaves page and location as
\* it found them, so the state after it still shows what it was given).
C14_AttemptSucceeds ==
    lastOp.attempt \in {"retry", "threw"} =>
        ~(MatchStarts(location) # {} /\ TargetReady(page))

\* The detector of detector d has called fire() in this step.
FireCalled(d) ==
    /\ calls'[d] # calls[d]
    /\ calls'[d][Len(calls'[d])].fn = "fire"

\* C15 (no adapter applies): a step in which fire() finds no adapter whose
\* match() is true creates no poller, leaves the document as it was, queues
\* no mutation record and runs no attempt, hence raises no error.
C15_NoAdapterNoEffect ==
    [][\A d \in Dets :
          (FireCalled(d) /\ adapter' = UNDEFINED) =>
              /\ pollers' = pollers
              /\ page' = page
              /\ queued' \subseteq queued
              /\ lastOp'.attempt = "none"]_vars

\* fire() has run at a location the bootstrap accepts and the adapter's
\* pattern does not match, while the target is in the document.
C15_Witness ==
    /\ lastOp.op \in {"quiet", "timeout"}
    /\ calls[lastOp.det] # <<>>
    /\ calls[lastOp.det][1].fn = "fire"
    /\ adapter = UNDEFINED
    /\ is_matched(location)
    /\ MatchStarts(location) = {}
    /\ getInsertTarget(page) # 0
    /\ \A p \in Pollers : ~pollers[p].created

\* C16 (resource release): a detector that is not running, or whose run has
\* ended by a callback (quiet path, timeout path, missing scope) or by
\* stop(), has its observer disconnected and no quiet or timeout timer
\* pending.
C16_ResourceRelease ==
    \A d \in Dets :
        (det[d].created /\ (~det[d].isLoading \/ calls[d] # <<>> \/ hist[d].stopped)) =>
            Released(d)

\* The timeout path has ended a watched run; isLoading is still set.
C16_Witness ==
    \E d \in Dets :
        /\ TimedOut(d)
        /\ hist[d].watched
        /\ det[d].isLoading
        /\ lastOp.op = "timeout"

\* C17 (adapter set in callback): a poll callback that reaches the adapter's
\* methods finds launcher.adapter set, and does not throw.
C17_AdapterSetInCallback ==
    (lastOp.op = "poll" /\ lastOp.attempt # "none") =>
        (adapter # UNDEFINED /\ lastOp.attempt # "threw")

\* C18 (adapter determinism): at the current location, after whatever calls
\* have been made so far, match() and getCardImageUrl() return what they
\* return on an adapter that has not been called before.
C18_AdapterDeterminism ==
    /\ match(W0).result = match([W0 EXCEPT !.lastIndex = 0]).result
    /\ getCardImageUrl(W0).url = getCardImageUrl([W0 EXCEPT !.lastIndex = 0]).url

\* C19 (timer uniqueness): a detector has at most one quiet timer and one
\* timeout timer pending in the host, and they are the ones its fields hold
\* (a timer that handleMutation replaced is no longer pending, so it cannot
\* fire); while a watched run is live its quiet timer is pending.
C19_TimerUniqueness ==
    \A d \in Dets :
        /\ \A id \in PendingOf(d) :
              \/ timers[id].kind = "quiet" /\ id = det[d].quietTimer
              \/ timers[id].kind = "timeout" /\ id = det[d].timeoutTimer
        /\ (hist[d].live /\ hist[d].watched) =>
              /\ det[d].quietTimer \in PendingOf(d)
              /\ det[d].timeoutTimer \in PendingOf(d)
              /\ det[d].quietTimer # det[d].timeoutTimer

\* handleMutation has re-armed the quiet timer in the middle of a run: the
\* one pending quiet timer has the whole quiet period left.
C19_Witness ==
    \E d \in Dets :
        /\ hist[d].live
        /\ hist[d].elapsed > 0
        /\ hist[d].sinceBatch = 0
        /\ {id \in PendingOf(d) : timers[id].kind = "quiet"} = {det[d].quietTimer}
        /\ timers[det[d].quietTimer].remaining = hist[d].quietPeriod
        /\ timers[det[d].timeoutTimer].remaining < hist[d].maxWaitTime

====
